---- MODULE Spec2Model ----
(***************************************************************************)
(* TPM 2.0 session layer of loicsikidi/tpm-stuff.                          *)
(*                                                                         *)
(* The repository's session constructors are thin wrappers: the inline     *)
(* ones (Unbound, Bound, Salted, HMACAuth) return tpm2.HMAC(...), the      *)
(* persistent ones (UnboundSession, BoundSession, SaltedSession) return    *)
(* tpm2.HMACSession(tpm, ...), i.e. a session started on the device plus   *)
(* the closer that flushes it.  The model holds the state those calls act  *)
(* on: the device's session slots, the owner hierarchy's auth value, the   *)
(* session objects handed to the callers, and the outcome of the last      *)
(* call.  One action is one call of the API (a whole Execute, a whole      *)
(* closer()), with the device round trips it makes.                        *)
(*                                                                         *)
(* What the wrapped calls do is that of go-tpm (the version of go.mod) and *)
(* of a TPM 2.0 device: HMACSession starts the device session at once and  *)
(* its closer is a FlushContext of that session's handle; an inline        *)
(* session is started by the Execute that uses it and ended with the       *)
(* command; the device gives a new session its lowest free handle.         *)
(* In Spec the owner recorded in a slot stands for "the session whose      *)
(* nonces and key the device holds under this handle".                     *)
(*                                                                         *)
(* Further specifications look at one aspect each, on a variable of       *)
(* their own: LinkSpec at the nonceTPM of one persistent session over its  *)
(* exchanges (link), CodecSpec at one command from its parameters to the   *)
(* bytes on the wire and back, with the sessions that authorize and        *)
(* encrypt it (codec), SealSpec at sealed objects and Unseal (store),      *)
(* ReuseSpec at inline session values passed to several Executes (reuse),  *)
(* AlteredSpec at the command of CodecSpec when its response is altered in *)
(* transit, ConnSpec at the round trips of callers sharing one persistent   *)
(* session on one connection, step by step (conn), ConnFairSpec being      *)
(* ConnSpec with the callers' own steps weakly fair, and NVSpec at the     *)
(* helpers GenerateRandomData, CreateNVIndex and DeleteNVIndex (nv).       *)
(***************************************************************************)
EXTENDS Integers, FiniteSets, Sequences, TLC

\* Number of session slots of the device.  The wrappers document four
\* handles (0x03000000-0x03000003); the lifecycle does not depend on the
\* number, which is kept small here.
PoolSize == 2

\* Number of persistent session objects a run may start.
MaxSessions == 3

\* Auth values: the empty password, the password the tests set, a wrong one.
EmptyAuth == ""

Secrets == {"", "mysecret", "wrongpassword"}

\* Auth values given to the persistent constructors: every call site of the
\* repository passes the (empty) owner auth.
PersistentAuths == {EmptyAuth}

\* Auth value HierarchyChangeAuth installs in the test.
NewOwnerAuths == {"mysecret"}

\* Auth value of primary key A, the parent of the keys created under it.
KeyAPassword == "passwordA"

\* The entities a command is addressed to: the owner hierarchy and key A.
\* Key A is a loaded object; objects do not take session slots.
Targets == {"owner", "keyA"}

\* Session handles of the device: h stands for 0x03000000 + h - 1.
Handles == 1..PoolSize

\* The handle of a session that is not started on the device.
TPMRHNull == 0

\* Identities of the persistent session objects, in the order they start.
SessionIds == 1..MaxSessions

\* Slot owner standing for an inline session's just-in-time device session.
InlineOwner == MaxSessions + 1

VARIABLES
  slots,      \* device: handle -> 0 (free) or the session the slot was started for
  ownerAuth,  \* device: current auth value of the owner hierarchy
  sess,       \* caller side: the persistent session objects
  last,       \* the last API call and what it returned
  codec,      \* one command and its response on their way through the sessions
  link,       \* nonces of one persistent session, at the caller and on the device
  store,      \* sealed objects of the device and the last seal/unseal call
  reuse,      \* two inline session values used by one Execute after another
  conn,       \* one connection: the callers of a shared session and the wire
  nv          \* NV indices of the device and the last call of an NV helper

\* What the session lifecycle leaves alone: the contents of the messages.
aux == <<codec, link, store, reuse, conn, nv>>

vars == <<slots, ownerAuth, sess, last, codec, link, store, reuse, conn, nv>>

\* A session object that HMACSession has not returned yet.
Unstarted == [made |-> FALSE, auth |-> EmptyAuth, handle |-> TPMRHNull, closed |-> FALSE]

\* The lifecycle view carries no message, no nonce and no sealed object.
NoCodec == [stage |-> "off"]

NoLink == [stage |-> "off"]

NoStore == [stage |-> "off"]

NoReuse == [stage |-> "off"]

NoConn == [stage |-> "off"]

NoNV == [stage |-> "off"]

NoCall == [op |-> "none", kind |-> "-", sid |-> 0, extra |-> "none",
           target |-> "-", sends |-> 0, secret |-> EmptyAuth, res |-> "OK"]

Init ==
  /\ slots = [h \in Handles |-> 0]
  /\ ownerAuth = EmptyAuth
  /\ sess = [i \in SessionIds |-> Unstarted]
  /\ last = NoCall
  /\ nv = NoNV
  /\ codec = NoCodec
  /\ link = NoLink
  /\ store = NoStore
  /\ reuse = NoReuse
  /\ conn = NoConn

Made == {i \in SessionIds : sess[i].made}

Occupied(s) == {h \in Handles : s[h] # 0}

FreeHandles(s) == Handles \ Occupied(s)

\* ---------------------------------------------------------------- device

\* A StartAuthSession that, when every slot is taken, loads the session in
\* place of the one in the lowest slot.
StartAuthSessionEvicts(s, owner) ==
  LET h == IF FreeHandles(s) = {}
           THEN CHOOSE f \in Handles : \A g \in Handles : f <= g
           ELSE CHOOSE f \in FreeHandles(s) : \A g \in FreeHandles(s) : f <= g
  IN [ok |-> TRUE, slots |-> [s EXCEPT ![h] = owner], handle |-> h]

\* TPM2_StartAuthSession: the device loads the session into its lowest free
\* slot, or refuses when every slot is taken.
StartAuthSession(s, owner) ==
  IF FreeHandles(s) = {}
  THEN [ok |-> FALSE, slots |-> s, handle |-> TPMRHNull]
  ELSE LET h == CHOOSE f \in FreeHandles(s) : \A g \in FreeHandles(s) : f <= g
       IN [ok |-> TRUE, slots |-> [s EXCEPT ![h] = owner], handle |-> h]

\* A FlushContext that answers without unloading the session.
FlushContextKeepsSlot(s, h) ==
  [ok |-> h \in Handles /\ s[h] # 0, slots |-> s]

\* TPM2_FlushContext on a session handle: frees whatever session is loaded
\* under that handle, and fails when none is.
FlushContext(s, h) ==
  IF h \in Handles /\ s[h] # 0
  THEN [ok |-> TRUE, slots |-> [s EXCEPT ![h] = 0]]
  ELSE [ok |-> FALSE, slots |-> s]

\* ------------------------------------------------- persistent sessions

\* tpm2.HMACSession: starts the session on the device and returns the
\* session object and its closer, or the device's error and no session.
HMACSession(kind, authValue) ==
  /\ Cardinality(Made) < MaxSessions
  /\ LET id == Cardinality(Made) + 1
         r == StartAuthSession(slots, id)
     IN IF r.ok
        THEN /\ slots' = r.slots
             /\ sess' = [sess EXCEPT ![id] = [made |-> TRUE, auth |-> authValue,
                                              handle |-> r.handle, closed |-> FALSE]]
             /\ last' = [op |-> "start", kind |-> kind, sid |-> id, extra |-> "none", target |-> "-", sends |-> 0,
                         secret |-> authValue, res |-> "OK"]
        ELSE /\ last' = [op |-> "start", kind |-> kind, sid |-> 0, extra |-> "none", target |-> "-", sends |-> 0,
                         secret |-> authValue, res |-> "SlotExhausted"]
             /\ UNCHANGED <<slots, sess>>
  /\ UNCHANGED <<ownerAuth, aux>>

\* tpm2.HMACSession when the transport fails under its StartAuthSession:
\* the command did not reach the device (lost = "command"), or the device
\* has run it and its response was not read (lost = "response").  The
\* constructor returns the transport's error and no session; a session the
\* device has started stays loaded, and no session object names it.
HMACSessionTransportError(kind, lost) ==
  /\ slots' = IF lost = "response" THEN StartAuthSession(slots, InlineOwner).slots
              ELSE slots
  /\ last' = [op |-> "start", kind |-> kind, sid |-> 0, extra |-> lost,
              target |-> "-", sends |-> 0, secret |-> EmptyAuth,
              res |-> "TransportError"]
  /\ UNCHANGED <<ownerAuth, sess, aux>>

UnboundSession(authValue) == HMACSession("unbound", authValue)

BoundSession(authValue) == HMACSession("bound", authValue)

SaltedSession == HMACSession("salted", EmptyAuth)

\* The closer HMACSession returns: one FlushContext of the handle the
\* session was given when it started.  sess[id].closed records that a call
\* of this closer has returned nil.
Closer(id) ==
  /\ sess[id].made
  /\ LET r == FlushContext(slots, sess[id].handle)
     IN /\ slots' = r.slots
        /\ sess' = [sess EXCEPT ![id].closed = @ \/ r.ok]
        /\ last' = [op |-> "close", kind |-> "-", sid |-> id, extra |-> "none", target |-> "-", sends |-> 0,
                    secret |-> EmptyAuth,
                    res |-> IF r.ok THEN "OK" ELSE "HandleError"]
  /\ UNCHANGED <<ownerAuth, aux>>

\* -------------------------------------------------- session descriptors

\* The sessions as the constructors build them: the auth value given with
\* tpm2.Auth (none for Salted) and the direction given with
\* tpm2.AESEncryption (none for HMACAuth).
\* bind: tpm2.Bound(...) is among the options; salt: tpm2.Salted(...) is;
\* persistent: built by tpm2.HMACSession, not by tpm2.HMAC.
Unbound(authValue) ==
  [name |-> "unbound", hasAuth |-> TRUE, auth |-> authValue, enc |-> "InOut",
   bind |-> FALSE, salt |-> FALSE, persistent |-> FALSE]

\* A Bound that takes a salt key as well.
BoundWithSalt(authValue) ==
  [name |-> "bound", hasAuth |-> TRUE, auth |-> authValue, enc |-> "InOut",
   bind |-> TRUE, salt |-> TRUE, persistent |-> FALSE]

Bound(authValue) ==
  [name |-> "bound", hasAuth |-> TRUE, auth |-> authValue, enc |-> "InOut",
   bind |-> TRUE, salt |-> FALSE, persistent |-> FALSE]

Salted ==
  [name |-> "salted", hasAuth |-> FALSE, auth |-> EmptyAuth, enc |-> "InOut",
   bind |-> FALSE, salt |-> TRUE, persistent |-> FALSE]

HMACAuth(authValue) ==
  [name |-> "hmacauth", hasAuth |-> TRUE, auth |-> authValue, enc |-> "None",
   bind |-> FALSE, salt |-> FALSE, persistent |-> FALSE]

\* The options the persistent constructors hand to tpm2.HMACSession: those
\* of the inline constructor of the same name.
UnboundSessionOptions(authValue) == [Unbound(authValue) EXCEPT !.persistent = TRUE]

BoundSessionOptions(authValue) == [Bound(authValue) EXCEPT !.persistent = TRUE]

SaltedSessionOptions == [Salted EXCEPT !.persistent = TRUE]

\* The session of the encrypted demo: tpm2.HMAC with tpm2.Auth,
\* tpm2.AESEncryption and tpm2.Salted.
SaltedHMAC(authValue) ==
  [name |-> "saltedhmac", hasAuth |-> TRUE, auth |-> authValue, enc |-> "InOut",
   bind |-> FALSE, salt |-> TRUE, persistent |-> FALSE]

\* tpm2.HMAC with tpm2.AESEncryption(128, dir) for the two directions the
\* wrappers do not use.
HMAC(authValue, dir) ==
  [name |-> "hmac", hasAuth |-> TRUE, auth |-> authValue, enc |-> dir,
   bind |-> FALSE, salt |-> FALSE, persistent |-> FALSE]

\* A session that would decrypt whatever its declared direction.
IsDecryptionAnyDirection(s) == s.enc # "None"

\* The session has the device decrypt the command's first parameter.
IsDecryption(s) == s.enc \in {"In", "InOut"}

\* The session has the device encrypt the response's first parameter.
IsEncryption(s) == s.enc \in {"Out", "InOut"}

\* The sessions of a command that have the device decrypt, and those that
\* have it encrypt.
DecryptSessions(ss) == {j \in 1..Len(ss) : IsDecryption(ss[j])}

EncryptSessions(ss) == {j \in 1..Len(ss) : IsEncryption(ss[j])}

\* ------------------------------------------------------------ exchanges

\* The sessions of one command, in the order Execute walks them: the
\* authorization session of the command (none for PasswordAuth), then the
\* extra sessions.  inline: a tpm2.HMAC(...) value built for this call
\* (handle TPM_RH_NULL); otherwise the persistent session object sid.
InlineSession == [inline |-> TRUE, sid |-> 0]

PersistentSession(id) == [inline |-> FALSE, sid |-> id]

\* Execute's loop "for i, s := range sess { s.Init(t) ... }": an inline
\* session starts its device session now, a persistent one is already
\* started.  The loop returns at the first Init that fails, and the
\* sessions initialised before it stay as they are.
RECURSIVE InitSessions(_, _)
InitSessions(s, ss) ==
  IF ss = <<>>
  THEN [ok |-> TRUE, slots |-> s, handles |-> <<>>]
  ELSE LET x == Head(ss)
           r == IF x.inline
                THEN StartAuthSession(s, InlineOwner)
                ELSE [ok |-> TRUE, slots |-> s, handle |-> sess[x.sid].handle]
       IN IF ~r.ok
          THEN [ok |-> FALSE, slots |-> s, handles |-> <<>>]
          ELSE LET rest == InitSessions(r.slots, Tail(ss))
               IN [ok |-> rest.ok, slots |-> rest.slots,
                   handles |-> <<r.handle>> \o rest.handles]

\* The session the device holds under the k-th handle of the command is the
\* one the caller computes its HMAC with.
Genuine(s, ss, hs, k) ==
  s[hs[k]] = (IF ss[k].inline THEN InlineOwner ELSE ss[k].sid)

\* The auth value the device holds for the entity.
TargetAuth(target) == IF target = "keyA" THEN KeyAPassword ELSE ownerAuth

\* A device that accepts any auth value once the sessions verify.
DeviceVerdictAnySecret(s, ss, hs, secret, target) ==
  IF \E k \in 1..Len(ss) : hs[k] \notin Occupied(s) THEN "BadSession"
  ELSE IF \E k \in 1..Len(ss) : ~Genuine(s, ss, hs, k) THEN "WrongSecret"
  ELSE "OK"

\* The device's verdict on a command on the target: every session handle
\* must name a loaded session, every session HMAC must verify, and the
\* presented auth value must be the target's.
DeviceVerdict(s, ss, hs, secret, target) ==
  IF \E k \in 1..Len(ss) : hs[k] \notin Occupied(s) THEN "BadSession"
  ELSE IF \E k \in 1..Len(ss) : ~Genuine(s, ss, hs, k) THEN "WrongSecret"
  ELSE IF secret # TargetAuth(target) THEN "WrongSecret"
  ELSE "OK"

\* The device session of an inline session ends with the command: the device
\* flushes it on success (ContinueSession clear), CleanupFailure on an error
\* response.  Persistent sessions stay loaded.
RECURSIVE EndInline(_, _, _)
EndInline(s, ss, hs) ==
  IF ss = <<>> THEN s
  ELSE EndInline(IF Head(ss).inline THEN FlushContext(s, Head(hs)).slots ELSE s,
                 Tail(ss), Tail(hs))

\* cmdParameters refuses a command more than one of whose sessions is
\* marked for decryption ("too many decrypt sessions").
TooManyDecryptSessions(descs) == Cardinality(DecryptSessions(descs)) > 1

\* One command/response exchange with the given sessions; sends counts the
\* transmissions of the command (Execute calls the transport once, whatever
\* the response).  descs: the
\* sessions as their constructors built them.  The sessions are initialised
\* first; the parameters are marshalled after that, and a refusal there
\* returns from Execute with the sessions as the loop left them.
Exchange(ss, descs, secret, target) ==
  LET r == InitSessions(slots, ss)
  IN IF ~r.ok
     THEN [res |-> "SlotExhausted", sends |-> 0, slots |-> r.slots]
     ELSE IF TooManyDecryptSessions(descs)
     THEN [res |-> "ConfigurationError", sends |-> 0, slots |-> r.slots]
     ELSE [res |-> DeviceVerdict(r.slots, ss, r.handles, secret, target),
           sends |-> 1,
           slots |-> EndInline(r.slots, ss, r.handles)]

\* cmd.Execute(tpm, extraSess...) of a command on the target.
ExecuteOn(target, kind, sid, secret, extra, ss, descs) ==
  LET o == Exchange(ss, descs, secret, target)
  IN /\ slots' = o.slots
     /\ last' = [op |-> "exec", kind |-> kind, sid |-> sid, extra |-> extra,
                 target |-> target, sends |-> o.sends, secret |-> secret, res |-> o.res]
     /\ UNCHANGED <<ownerAuth, sess, aux>>

\* A command on the owner hierarchy of whose sessions at most one encrypts.
Execute(kind, sid, secret, extra, ss) ==
  ExecuteOn("owner", kind, sid, secret, extra, ss, <<>>)

\* AuthHandle with tpm2.PasswordAuth(p), no session.
ExecutePasswordAuth(p) == Execute("password", 0, p, "none", <<>>)

\* PasswordAuth(p) plus an inline Salted(...) encryption session.
ExecutePasswordAuthSalted(p) ==
  Execute("password", 0, p, "salted", <<InlineSession>>)

\* PasswordAuth(p) plus the persistent session x as the extra session.
ExecutePasswordAuthSession(p, x) ==
  /\ sess[x].made
  /\ Execute("password", x, p, "session", <<PersistentSession(x)>>)

\* The persistent session id authorizes the command.
ExecuteSession(id) ==
  /\ sess[id].made
  /\ Execute("session", id, sess[id].auth, "none", <<PersistentSession(id)>>)

\* An inline Unbound(authValue) authorizes the command.
ExecuteUnbound(authValue) ==
  Execute("unbound", 0, authValue, "none", <<InlineSession>>)

\* An inline Bound(bindHandle, bindName, bindAuth, authValue) authorizes it.
ExecuteBound(authValue) ==
  Execute("bound", 0, authValue, "none", <<InlineSession>>)

\* An inline HMACAuth(authValue) authorizes the command.
ExecuteHMACAuth(authValue) ==
  Execute("hmacauth", 0, authValue, "none", <<InlineSession>>)

\* HMACAuth(authValue) authorizes, an inline Salted(...) session encrypts.
ExecuteHMACAuthSalted(authValue) ==
  Execute("hmacauth", 0, authValue, "salted", <<InlineSession, InlineSession>>)

\* Create or Load under key A: HMACAuth(authValue) authorizes, the inline
\* Salted(...) session encrypts.
ExecuteHMACAuthSaltedOnKeyA(authValue) ==
  ExecuteOn("keyA", "hmacauth", 0, authValue, "salted",
            <<InlineSession, InlineSession>>, <<HMACAuth(authValue), Salted>>)

\* An inline Bound(...) authorizes, an inline Salted(...) is the extra
\* session.
ExecuteBoundSalted(authValue) ==
  ExecuteOn("owner", "bound", 0, authValue, "salted",
            <<InlineSession, InlineSession>>, <<Bound(authValue), Salted>>)

\* An inline Unbound(...) authorizes, an inline Salted(...) is the extra
\* session.
ExecuteUnboundSalted(authValue) ==
  ExecuteOn("owner", "unbound", 0, authValue, "salted",
            <<InlineSession, InlineSession>>, <<Unbound(authValue), Salted>>)

\* The persistent constructors.
PersistentKinds == {"unbound", "bound", "salted"}

\* The inline constructors.
EphemeralKinds == {"unbound", "bound", "salted", "hmacauth"}

\* A constructor that starts the device session at once.
HMACStartingSession(s) == StartAuthSession(s, InlineOwner).slots

\* The slots after tpm2.HMAC(...): the call assembles the session value
\* from its options and returns it; it is given no transport.
InlineHMAC(s) == s

\* Unbound(...), Bound(...), Salted(...) or HMACAuth(...) is called.
Build(kind) ==
  /\ slots' = InlineHMAC(slots)
  /\ last' = [op |-> "build", kind |-> kind, sid |-> 0, extra |-> "none",
              target |-> "-", sends |-> 0, secret |-> EmptyAuth, res |-> "OK"]
  /\ UNCHANGED <<ownerAuth, sess, aux>>

\* HierarchyChangeAuth on the bare TPMRHOwner handle (empty password).
HierarchyChangeAuth(newAuth) ==
  /\ IF ownerAuth = EmptyAuth
     THEN /\ ownerAuth' = newAuth
          /\ last' = [op |-> "hca", kind |-> "password", sid |-> 0, extra |-> "none", target |-> "owner", sends |-> 1,
                      secret |-> newAuth, res |-> "OK"]
     ELSE /\ last' = [op |-> "hca", kind |-> "password", sid |-> 0, extra |-> "none", target |-> "owner", sends |-> 1,
                      secret |-> newAuth, res |-> "WrongSecret"]
          /\ UNCHANGED ownerAuth
  /\ UNCHANGED <<slots, sess, aux>>

Next ==
  \/ \E a \in PersistentAuths : UnboundSession(a)
  \/ \E a \in PersistentAuths : BoundSession(a)
  \/ SaltedSession
  \/ \E k \in PersistentKinds, lost \in {"command", "response"} :
       HMACSessionTransportError(k, lost)
  \/ \E i \in SessionIds : Closer(i)
  \/ \E p \in Secrets : ExecutePasswordAuth(p)
  \/ \E p \in Secrets : ExecutePasswordAuthSalted(p)
  \/ \E p \in Secrets, x \in SessionIds : ExecutePasswordAuthSession(p, x)
  \/ \E i \in SessionIds : ExecuteSession(i)
  \/ \E a \in Secrets : ExecuteUnbound(a)
  \/ \E a \in Secrets : ExecuteBound(a)
  \/ \E a \in Secrets : ExecuteHMACAuth(a)
  \/ \E a \in Secrets : ExecuteHMACAuthSalted(a)
  \/ \E a \in {EmptyAuth, KeyAPassword} : ExecuteHMACAuthSaltedOnKeyA(a)
  \/ \E a \in Secrets : ExecuteBoundSalted(a)
  \/ \E a \in Secrets : ExecuteUnboundSalted(a)
  \/ \E n \in NewOwnerAuths : HierarchyChangeAuth(n)
  \/ \E k \in EphemeralKinds : Build(k)

Spec == Init /\ [][Next]_vars

\* ------------------------------------------------------- rolling nonces

\* Number of responses one persistent session receives in a run.
MaxNonce == 6

\* A nonce value the device never issued (a response corrupted in transit).
BadNonce == MaxNonce + 1

\* No command recorded on the transport yet.
NoNonce == 0 - 1

\* A device that answers without renewing nonceTPM.
KeepNonce(n) == n

\* The device draws a new nonceTPM for every successful response (the
\* counter stands for "a value not used before").
RollNonce(n) == n + 1

\* Number of session keys (and of parameter-encryption keys).
MaxKey == 2

\* A session whose key is derived anew from each nonceTPM.
SessionKeyRederived(k, n) == (k + n) % (MaxKey + 1)

\* The session key after an exchange that brought nonceTPM n: Init has
\* derived it from the salt, the bind auth and the first nonces, and
\* nothing assigns it afterwards.
SessionKeyKept(k, n) == k

\* A persistent session just returned by its constructor: caller and device
\* hold the nonceTPM of the StartAuthSession response, and the session its
\* key (0: the empty key of a session with neither bind nor salt).
LinkInit ==
  /\ slots = [h \in Handles |-> 0]
  /\ ownerAuth = EmptyAuth
  /\ sess = [i \in SessionIds |-> Unstarted]
  /\ last = NoCall
  /\ nv = NoNV
  /\ codec = NoCodec
  /\ store = NoStore
  /\ reuse = NoReuse
  /\ conn = NoConn
  /\ \E k \in 0..MaxKey :
       link = [stage |-> "on", devNonce |-> 0, cliNonce |-> 0, rec |-> NoNonce,
               sessionKey |-> k, broken |-> FALSE, op |-> "start", res |-> "OK"]

\* The device checks the command's HMAC, which covers the nonceTPM the
\* caller tracks: it verifies only against the nonceTPM the device holds.
DeviceAccepts(cmdNonce) == cmdNonce = link.devNonce

\* One Execute on the session.  The command is authorized with the
\* nonceTPM the caller tracks; on success the device renews its nonceTPM,
\* returns it, and the caller stores it for the next command.  keep: the
\* transport records the command message.
LinkExchange(keep) ==
  /\ link.stage = "on" /\ link.devNonce < MaxNonce
  /\ LET ok == DeviceAccepts(link.cliNonce)
         n  == RollNonce(link.devNonce)
     IN link' = [link EXCEPT
                   !.devNonce = IF ok THEN n ELSE @,
                   !.cliNonce = IF ok THEN n ELSE @,
                   !.sessionKey = IF ok THEN SessionKeyKept(@, n) ELSE @,
                   !.rec = IF keep THEN link.cliNonce ELSE @,
                   !.op = "exchange",
                   !.res = IF ok THEN "OK" ELSE "WrongSecret"]
  /\ UNCHANGED <<slots, ownerAuth, sess, last, codec, store, reuse, conn, nv>>

\* The recorded command message is sent to the device once more.
LinkReplay ==
  /\ link.stage = "on" /\ link.rec # NoNonce /\ link.devNonce < MaxNonce
  /\ LET ok == DeviceAccepts(link.rec)
     IN link' = [link EXCEPT
                   !.devNonce = IF ok THEN RollNonce(@) ELSE @,
                   !.op = "replay",
                   !.res = IF ok THEN "OK" ELSE "WrongSecret"]
  /\ UNCHANGED <<slots, ownerAuth, sess, last, codec, store, reuse, conn, nv>>

\* One Execute whose response is altered in transit: the device has run
\* the command, the caller's check of the response HMAC fails and Execute
\* returns that error.  The caller has stored the nonceTPM field of the
\* response before checking it; part tells whether that field was altered.
LinkExchangeCorrupted(part) ==
  /\ link.stage = "on" /\ link.devNonce < MaxNonce
  /\ DeviceAccepts(link.cliNonce)
  /\ LET n == RollNonce(link.devNonce)
     IN link' = [link EXCEPT
                   !.devNonce = n,
                   !.cliNonce = IF part = "nonce" THEN BadNonce ELSE n,
                   !.sessionKey = SessionKeyKept(@, n),
                   !.broken = TRUE,
                   !.op = "corrupted",
                   !.res = "NonceMismatch"]
  /\ UNCHANGED <<slots, ownerAuth, sess, last, codec, store, reuse, conn, nv>>

LinkNext ==
  \/ \E keep \in BOOLEAN : LinkExchange(keep)
  \/ LinkReplay
  \/ \E part \in {"hmac", "nonce"} : LinkExchangeCorrupted(part)

LinkSpec == LinkInit /\ [][LinkNext]_vars

\* ------------------------------------------------- parameter encryption

\* Number of values of one byte of a parameter.
Radix == 3

\* Longest parameter buffer of a run.
MaxLen == 2

Bytes == 0..(Radix - 1)

Params == UNION {[1..n -> Bytes] : n \in 0..MaxLen}

Keys == 1..MaxKey

\* The block cipher under key k, idealised: its output is never the zero
\* unit and two keys never give the same output for one input (at most
\* Radix - 1 keys).
Blk(k, x) == 1 + ((k + x) % (Radix - 1))

\* The initial value of the chain.
IV(k) == 0

\* AES-CFB: each unit of the plaintext is combined with the cipher output
\* for the previous unit of the ciphertext.
RECURSIVE CFBEncrypt(_, _, _)
CFBEncrypt(k, prev, p) ==
  IF p = <<>> THEN <<>>
  ELSE LET c == (Head(p) + Blk(k, prev)) % Radix
       IN <<c>> \o CFBEncrypt(k, c, Tail(p))

\* A decryption that feeds the recovered plaintext back instead of the
\* ciphertext.
RECURSIVE CFBDecryptPlainFeedback(_, _, _)
CFBDecryptPlainFeedback(k, prev, c) ==
  IF c = <<>> THEN <<>>
  ELSE LET x == (Head(c) + Radix - Blk(k, prev)) % Radix
       IN <<x>> \o CFBDecryptPlainFeedback(k, x, Tail(c))

RECURSIVE CFBDecrypt(_, _, _)
CFBDecrypt(k, prev, c) ==
  IF c = <<>> THEN <<>>
  ELSE <<(Head(c) + Radix - Blk(k, prev)) % Radix>> \o CFBDecrypt(k, Head(c), Tail(c))

\* An encryption that leaves the parameter as it is.
EncryptParameterInClear(k, p) == p

EncryptParameter(k, p) == CFBEncrypt(k, IV(k), p)

DecryptParameter(k, c) == CFBDecrypt(k, IV(k), c)

\* The session lists of the commands: none or Salted with PasswordAuth,
\* then the lists whose first session authorizes.
PasswordShapes == {<<>>, <<Salted>>, <<SaltedSessionOptions>>}

SessionShapes(a) ==
  {<<HMACAuth(a)>>, <<HMACAuth(a), Salted>>, <<Unbound(a)>>, <<Bound(a)>>,
   <<HMAC(a, "In")>>, <<HMAC(a, "Out")>>, <<Unbound(a), Salted>>,
   <<UnboundSessionOptions(a)>>, <<BoundSessionOptions(a)>>, <<SaltedHMAC(a)>>}

\* The public (second) parameter of the command.
PublicTemplate == <<1, 0>>

\* Auth values of the target entity of the command.
TargetAuths == {EmptyAuth, "mysecret"}

\* A command about to be executed: how it is authorized, its sessions, the
\* target's auth value, its parameters, and the key material of the run.
CodecInit ==
  /\ slots = [h \in Handles |-> 0]
  /\ ownerAuth = EmptyAuth
  /\ sess = [i \in SessionIds |-> Unstarted]
  /\ last = NoCall
  /\ nv = NoNV
  /\ link = NoLink
  /\ store = NoStore
  /\ reuse = NoReuse
  /\ conn = NoConn
  /\ \E pw \in BOOLEAN, a \in Secrets, t \in TargetAuths, p \in Params, k \in Keys :
       \E ss \in (IF pw THEN PasswordShapes ELSE SessionShapes(a)) :
         codec = [stage |-> "built", pw |-> pw, secret |-> a, ss |-> ss,
                  tauth |-> t, key |-> k, cmd |-> <<p, PublicTemplate>>,
                  wire |-> <<>>, dev |-> <<>>, rsp |-> <<>>, wireRsp |-> <<>>,
                  got |-> <<>>, auth |-> <<>>, rspAuth |-> <<>>, res |-> "-"]

\* The parameter key of the j-th session of the command for the command
\* (turn 0) and for the response (turn 1): derived from that session's key
\* and the nonces of the exchange, the same on both sides.
ParameterKey(k, j, turn) == 1 + ((k + j + turn) % MaxKey)

\* The secret the command is authorized with: one that takes it from the
\* last session of the command.
AuthSecretOfLastSession(c) ==
  IF c.ss = <<>> THEN c.secret ELSE c.ss[Len(c.ss)].auth

\* The secret the command is authorized with: the password, or the auth
\* value of the session given as the handle's Auth.
AuthSecret(c) == IF c.pw THEN c.secret ELSE c.ss[1].auth

\* The first parameter as one side writes it for the other.
Encode(k, js, turn, parms) ==
  IF js = {} THEN parms
  ELSE LET j == CHOOSE x \in js : TRUE
       IN <<EncryptParameter(ParameterKey(k, j, turn), parms[1]), parms[2]>>

\* The first parameter as the other side reads it.
Decode(k, js, turn, parms) ==
  IF js = {} THEN parms
  ELSE LET j == CHOOSE x \in js : TRUE
       IN <<DecryptParameter(ParameterKey(k, j, turn), parms[1]), parms[2]>>

\* The auth values as numbers, for the HMAC computation.
AuthCode(a) == IF a = EmptyAuth THEN 0 ELSE IF a = "mysecret" THEN 1 ELSE 2

\* The HMAC key part a session contributes: the session key, empty for a
\* session with neither bind entity nor salt.
SessionKey(s, k, j) == IF s.bind \/ s.salt THEN 1 + ((k + j) % MaxKey) ELSE 0

\* The hash of the parameters as they are on the wire.
RECURSIVE Digest(_)
Digest(bytes) == IF bytes = <<>> THEN 1 ELSE (2 * Digest(Tail(bytes)) + Head(bytes)) % 5

\* The HMAC over the parameter hash, keyed with session key and auth value.
HMACTag(sk, a, d) == sk + (MaxKey + 1) * (AuthCode(a) + 3 * d)

\* An authorization that carries the auth value beside the HMAC.
AuthorizeWithSecret(sk, a, d) == [hmac |-> HMACTag(sk, a, d), password |-> a]

\* The authorization an HMAC session writes into the command, and the
\* device into the response: the HMAC and nothing else of the secrets.
Authorize(sk, a, d) == [hmac |-> HMACTag(sk, a, d)]

\* The authorization area for the given parameter bytes: with PasswordAuth
\* the password itself comes first; each session of the command adds its
\* authorization, and only the session given as the handle's Auth puts the
\* entity's auth value into its HMAC key.
AuthArea(c, secret, parms) ==
  (IF c.pw THEN <<[password |-> secret]>> ELSE <<>>)
  \o [j \in 1..Len(c.ss) |->
        Authorize(SessionKey(c.ss[j], c.key, j),
                  IF ~c.pw /\ j = 1 THEN secret ELSE EmptyAuth,
                  Digest(parms[1]))]

\* The device checks the authorization of the handle: the password against
\* the target's auth value, or the HMAC against the one it computes with
\* the target's auth value.
Authorized(c) ==
  IF c.pw
  THEN c.auth[1].password = c.tauth
  ELSE c.auth[1] = AuthArea(c, c.tauth, c.wire)[1]

\* Execute builds the parameter area: the first parameter is encrypted by
\* the one session that asks for it; two such sessions are an error and the
\* command is not sent.  The authorization area is computed over the
\* parameters as sent.
CmdParameters ==
  /\ codec.stage = "built"
  /\ IF Cardinality(DecryptSessions(codec.ss)) > 1
     THEN codec' = [codec EXCEPT !.stage = "done", !.res = "ConfigurationError"]
     ELSE LET w == Encode(codec.key, DecryptSessions(codec.ss), 0, codec.cmd)
          IN codec' = [codec EXCEPT !.stage = "sent", !.wire = w,
                         !.auth = AuthArea(codec, AuthSecret(codec), w)]
  /\ UNCHANGED <<slots, ownerAuth, sess, last, link, store, reuse, conn, nv>>

\* The device checks the authorization, reads the parameters and answers;
\* the first parameter of its response is the buffer it read.
DeviceAnswers ==
  /\ codec.stage = "sent"
  /\ IF ~Authorized(codec)
     THEN codec' = [codec EXCEPT !.stage = "done", !.res = "WrongSecret"]
     ELSE LET d == Decode(codec.key, DecryptSessions(codec.ss), 0, codec.wire)
              w == Encode(codec.key, EncryptSessions(codec.ss), 1, d)
          IN codec' = [codec EXCEPT !.stage = "answered", !.dev = d, !.rsp = d,
                         !.wireRsp = w,
                         !.rspAuth = AuthArea([codec EXCEPT !.pw = FALSE],
                                              codec.tauth, w)]
  /\ UNCHANGED <<slots, ownerAuth, sess, last, link, store, reuse, conn, nv>>

\* The response is altered on its way to the caller: the HMAC of its first
\* session, or the first byte of its first parameter.
ResponseAltered(part) ==
  /\ codec.stage = "answered" /\ codec.ss # <<>>
  /\ part = "parameter" => codec.wireRsp[1] # <<>>
  /\ codec' = [codec EXCEPT
                 !.stage = "altered",
                 !.rspAuth[1].hmac = IF part = "hmac" THEN @ + 1 ELSE @,
                 !.wireRsp[1] = IF part = "parameter"
                                THEN <<(Head(@) + 1) % Radix>> \o Tail(@)
                                ELSE @]
  /\ UNCHANGED <<slots, ownerAuth, sess, last, link, store, reuse, conn, nv>>

\* An Execute that hands out what it has decrypted whatever the check of
\* the response said.
ResponseExposedAnyway(ok, parms) == parms

\* What Execute returns for the response parameters: the response
\* structure when every step succeeded, nil with the error otherwise.
ResponseExposed(ok, parms) == IF ok THEN parms ELSE <<>>

\* Execute reads the response: it checks the HMAC of every session over
\* the parameters as received, then the first parameter is decrypted by
\* the session that asked for it.
RspParameters ==
  /\ codec.stage \in {"answered", "altered"}
  /\ LET ok == codec.rspAuth = AuthArea([codec EXCEPT !.pw = FALSE],
                                       AuthSecret(codec), codec.wireRsp)
     IN codec' = [codec EXCEPT
                    !.stage = "done",
                    !.res = IF ok THEN "OK" ELSE "NonceMismatch",
                    !.got = ResponseExposed(ok,
                              Decode(codec.key, EncryptSessions(codec.ss), 1,
                                     codec.wireRsp))]
  /\ UNCHANGED <<slots, ownerAuth, sess, last, link, store, reuse, conn, nv>>

CodecNext == CmdParameters \/ DeviceAnswers \/ RspParameters

CodecSpec == CodecInit /\ [][CodecNext]_vars

\* The same command over a transport that may alter the response.
AlteredNext ==
  \/ CodecNext
  \/ \E part \in {"hmac", "parameter"} : ResponseAltered(part)

AlteredSpec == CodecInit /\ [][AlteredNext]_vars

\* -------------------------------------------------------------- sealing

\* MAX_SYM_DATA: the largest sealed payload the device takes, in bytes.
MaxSymData == 128

\* The name algorithms of the seal templates.
NameAlgs == {"SHA1", "SHA256", "SHA384", "SHA512"}

\* The auth value a sealed object is created with: none, or the password.
UserAuths == {EmptyAuth, "mypassword"}

\* The passwords presented to Unseal.
UnsealAuths == {EmptyAuth, "mypassword", "wrongpassword"}

\* The bytes of "secret".
DataToSeal == <<115, 101, 99, 114, 101, 116>>

\* make([]byte, n) filled with byte(i % 256).
DataOfSize(n) == [i \in 1..n |-> (i - 1) % 256]

\* The payloads sealed: "secret", and the payloads around the limit.
SealingData ==
  {DataToSeal, DataOfSize(MaxSymData - 1), DataOfSize(MaxSymData),
   DataOfSize(MaxSymData + 1)}

NoObject == [made |-> FALSE]

\* No sealed object yet.
SealInit ==
  /\ slots = [h \in Handles |-> 0]
  /\ ownerAuth = EmptyAuth
  /\ sess = [i \in SessionIds |-> Unstarted]
  /\ last = NoCall
  /\ nv = NoNV
  /\ codec = NoCodec
  /\ link = NoLink
  /\ reuse = NoReuse
  /\ conn = NoConn
  /\ store = [stage |-> "on", obj |-> NoObject, op |-> "none", req |-> NoObject,
              pw |-> EmptyAuth, res |-> "-", out |-> <<>>]

\* A device that keeps the first MAX_SYM_DATA bytes of a longer payload.
TruncatedSensitiveData(data) ==
  [ok |-> TRUE,
   data |-> IF Len(data) > MaxSymData THEN SubSeq(data, 1, MaxSymData) ELSE data]

\* The device reads the sensitive data of Create and CreatePrimary: a
\* payload longer than MAX_SYM_DATA is a size error, whatever the name
\* algorithm of the template.
SensitiveData(data) ==
  IF Len(data) > MaxSymData
  THEN [ok |-> FALSE, data |-> <<>>]
  ELSE [ok |-> TRUE, data |-> data]

\* Creation of a sealed object, as a primary or as a child of the storage
\* key: on success the handle of the loaded object is returned.
CreateSealed(parent, alg, userAuth, data) ==
  /\ store.stage = "on" /\ ~store.obj.made
  /\ LET r   == SensitiveData(data)
         req == [made |-> TRUE, parent |-> parent, alg |-> alg,
                 auth |-> userAuth, data |-> data]
     IN store' = [store EXCEPT
                    !.obj = IF r.ok THEN [req EXCEPT !.data = r.data] ELSE NoObject,
                    !.op = "create", !.req = req, !.pw = EmptyAuth,
                    !.res = IF r.ok THEN "OK" ELSE "SizeError",
                    !.out = <<>>]
  /\ UNCHANGED <<slots, ownerAuth, sess, last, codec, link, reuse, conn, nv>>

\* tpmutil.CreatePrimary with SealingData.
CreatePrimary(alg, userAuth, data) == CreateSealed("primary", alg, userAuth, data)

\* tpmutil.Create with SealingData under the storage key.
Create(alg, userAuth, data) == CreateSealed("child", alg, userAuth, data)

\* A device that releases the data whatever password is presented.
UnsealAuthorizedAlways(obj, password) == TRUE

\* The device releases the data to the object's auth value only.
UnsealAuthorized(obj, password) == password = obj.auth

\* tpm2.Unseal with ItemHandle authorized by PasswordAuth(password) (the
\* empty password when ToAuthHandle is given no auth).
Unseal(password) ==
  /\ store.stage = "on" /\ store.obj.made
  /\ LET ok == UnsealAuthorized(store.obj, password)
     IN store' = [store EXCEPT
                    !.op = "unseal", !.req = NoObject, !.pw = password,
                    !.res = IF ok THEN "OK" ELSE "WrongSecret",
                    !.out = IF ok THEN store.obj.data ELSE <<>>]
  /\ UNCHANGED <<slots, ownerAuth, sess, last, codec, link, reuse, conn, nv>>

\* sealHandle.Close(): the object is flushed.
Close ==
  /\ store.stage = "on" /\ store.obj.made
  /\ store' = [store EXCEPT !.obj = NoObject, !.op = "close", !.req = NoObject,
                            !.pw = EmptyAuth, !.res = "OK", !.out = <<>>]
  /\ UNCHANGED <<slots, ownerAuth, sess, last, codec, link, reuse, conn, nv>>

SealNext ==
  \/ \E alg \in NameAlgs, a \in UserAuths, d \in SealingData : CreatePrimary(alg, a, d)
  \/ \E alg \in NameAlgs, a \in UserAuths, d \in SealingData : Create(alg, a, d)
  \/ \E p \in UnsealAuths : Unseal(p)
  \/ Close

SealSpec == SealInit /\ [][SealNext]_vars

\* ------------------------------------------- reuse of inline sessions
\*
\* An inline session value is a Go value holding the handle of its device
\* session (TPMRHNull while it has none).  Execute calls Init on every
\* session in order, and Init starts a device session only for a value
\* whose handle is TPMRHNull.  A value is reset to TPMRHNull when the
\* command it authorized has succeeded, or when the flush after a failed
\* command has.

\* Slot owners of the two values: v = HMACAuth(EmptyAuth), the handle's
\* Auth, and w = Salted(...), the encryption session beside it.
ValueV == InlineOwner

ValueW == InlineOwner + 1

\* Slot owner of sessions that other code of the process holds.
OtherOwner == 1

ReuseInit ==
  /\ slots = [h \in Handles |-> 0]
  /\ ownerAuth = EmptyAuth
  /\ sess = [i \in SessionIds |-> Unstarted]
  /\ last = NoCall
  /\ nv = NoNV
  /\ codec = NoCodec
  /\ link = NoLink
  /\ store = NoStore
  /\ conn = NoConn
  /\ reuse = [stage |-> "on", v |-> TPMRHNull, w |-> TPMRHNull, op |-> "none",
              useW |-> FALSE, started |-> {}, res |-> "OK"]

\* Session.Init of an inline value holding handle h.
InitValue(s, h, owner) ==
  IF h # TPMRHNull
  THEN [ok |-> TRUE, slots |-> s, handle |-> h, started |-> FALSE]
  ELSE LET r == StartAuthSession(s, owner)
       IN [ok |-> r.ok, slots |-> r.slots, handle |-> r.handle, started |-> r.ok]

\* Session.CleanupFailure of an inline value: a FlushContext of its handle;
\* the value forgets the handle when the flush succeeded.
CleanupFailure(s, h) ==
  LET r == FlushContext(s, h)
  IN [slots |-> r.slots, handle |-> IF r.ok THEN TPMRHNull ELSE h]

\* The device's verdict on a command authorized by v (and encrypted by w):
\* each handle must hold the session of its value, and v's auth value must
\* be the owner's.
ReuseVerdict(s, hv, hw, useW) ==
  IF s[hv] = 0 \/ (useW /\ s[hw] = 0) THEN "BadSession"
  ELSE IF s[hv] # ValueV \/ (useW /\ s[hw] # ValueW) THEN "WrongSecret"
  ELSE IF ownerAuth # EmptyAuth THEN "WrongSecret"
  ELSE "OK"

\* One Execute with Auth: v, and with w as a further session when useW.
ReuseExecute(useW) ==
  /\ reuse.stage = "on"
  /\ LET iv == InitValue(slots, reuse.v, ValueV)
         iw == IF useW /\ iv.ok
               THEN InitValue(iv.slots, reuse.w, ValueW)
               ELSE [ok |-> iv.ok, slots |-> iv.slots, handle |-> reuse.w,
                     started |-> FALSE]
         st == (IF iv.started THEN {ValueV} ELSE {})
               \cup (IF iw.started THEN {ValueW} ELSE {})
     IN IF ~iw.ok
        THEN /\ slots' = iw.slots
             /\ reuse' = [reuse EXCEPT !.v = iv.handle, !.op = "exec",
                            !.useW = useW, !.started = st,
                            !.res = "SlotExhausted"]
        ELSE LET res == ReuseVerdict(iw.slots, iv.handle, iw.handle, useW)
                 cv  == CleanupFailure(iw.slots, iv.handle)
                 cw  == IF useW THEN CleanupFailure(cv.slots, iw.handle)
                        ELSE [slots |-> cv.slots, handle |-> reuse.w]
             IN /\ slots' = cw.slots
                /\ reuse' = [reuse EXCEPT
                               !.v = IF res = "OK" THEN TPMRHNull ELSE cv.handle,
                               !.w = IF res = "OK" /\ useW THEN TPMRHNull
                                     ELSE cw.handle,
                               !.op = "exec", !.useW = useW, !.started = st,
                               !.res = res]
  /\ UNCHANGED <<ownerAuth, sess, last, codec, link, store, conn, nv>>

\* Other code starts a persistent session (tpm2.HMACSession).
OtherSession ==
  /\ reuse.stage = "on"
  /\ FreeHandles(slots) # {}
  /\ slots' = StartAuthSession(slots, OtherOwner).slots
  /\ reuse' = [reuse EXCEPT !.op = "other"]
  /\ UNCHANGED <<ownerAuth, sess, last, codec, link, store, conn, nv>>

\* Other code closes a session of its own.
OtherCloser(h) ==
  /\ reuse.stage = "on"
  /\ slots[h] = OtherOwner
  /\ slots' = FlushContext(slots, h).slots
  /\ reuse' = [reuse EXCEPT !.op = "other"]
  /\ UNCHANGED <<ownerAuth, sess, last, codec, link, store, conn, nv>>

\* The owner auth is changed, or set back (HierarchyChangeAuth under
\* PasswordAuth with the current value).
ReuseHierarchyChangeAuth(newAuth) ==
  /\ reuse.stage = "on"
  /\ newAuth # ownerAuth
  /\ ownerAuth' = newAuth
  /\ reuse' = [reuse EXCEPT !.op = "other"]
  /\ UNCHANGED <<slots, sess, last, codec, link, store, conn, nv>>

ReuseNext ==
  \/ \E useW \in BOOLEAN : ReuseExecute(useW)
  \/ OtherSession
  \/ \E h \in Handles : OtherCloser(h)
  \/ \E n \in NewOwnerAuths \cup {EmptyAuth} : ReuseHierarchyChangeAuth(n)

ReuseSpec == ReuseInit /\ [][ReuseNext]_vars

\* ------------------------------------------------- one connection
\*
\* Every round trip (the StartAuthSession of a constructor, a command's
\* Execute, the FlushContext of a closer) is one transport Send: the
\* command is written to the device file, the simulator or the TCP
\* connection, and the response is read back.  OpenTPM sets no deadline on
\* any of the three.  The session object is not synchronized; callers that
\* share it hold a mutex of their own around each Execute.

\* Number of callers sharing the session.
NumCallers == 2

Callers == 1..NumCallers

ConnInit ==
  /\ slots = [h \in Handles |-> 0]
  /\ ownerAuth = EmptyAuth
  /\ sess = [i \in SessionIds |-> Unstarted]
  /\ last = NoCall
  /\ nv = NoNV
  /\ codec = NoCodec
  /\ link = NoLink
  /\ store = NoStore
  /\ reuse = NoReuse
  /\ conn = [stage |-> "on", lock |-> 0, pc |-> [c \in Callers |-> "idle"],
             wire |-> "idle", cmdNonce |-> 0, rsp |-> [ok |-> TRUE, nonce |-> 0],
             devNonce |-> 0, cliNonce |-> 0, inflight |-> 0, failed |-> FALSE,
             res |-> [c \in Callers |-> "-"]]

\* Callers that do not hold a mutex.
MutexAlwaysAvailable(l) == TRUE

\* The callers' mutex can be taken when nobody holds it.
MutexAvailable(l) == l = 0

\* Caller c takes the mutex before its Execute.
Lock(c) ==
  /\ conn.stage = "on" /\ conn.pc[c] = "idle"
  /\ MutexAvailable(conn.lock)
  /\ conn' = [conn EXCEPT !.lock = c, !.pc[c] = "locked"]
  /\ UNCHANGED <<slots, ownerAuth, sess, last, codec, link, store, reuse, nv>>

\* Execute of caller c writes the command, authorized with the nonceTPM
\* the session object holds.
Send(c) ==
  /\ conn.stage = "on" /\ conn.pc[c] = "locked" /\ conn.devNonce < MaxNonce
  /\ conn' = [conn EXCEPT !.pc[c] = "sent", !.wire = "cmd",
                 !.cmdNonce = conn.cliNonce, !.inflight = @ + 1]
  /\ UNCHANGED <<slots, ownerAuth, sess, last, codec, link, store, reuse, nv>>

\* The device processes the command it was sent: it accepts it when the
\* HMAC verifies against its nonceTPM, renews the nonce and answers with
\* it; otherwise it answers with an error.
ConnDeviceAnswers ==
  /\ conn.stage = "on" /\ conn.wire = "cmd"
  /\ LET ok == conn.cmdNonce = conn.devNonce
         n  == IF ok THEN RollNonce(conn.devNonce) ELSE conn.devNonce
     IN conn' = [conn EXCEPT !.wire = "rsp", !.devNonce = n,
                   !.rsp = [ok |-> ok, nonce |-> n]]
  /\ UNCHANGED <<slots, ownerAuth, sess, last, codec, link, store, reuse, nv>>

\* Execute of caller c reads the response and returns: the session object
\* takes the nonceTPM of a successful response.
Receive(c) ==
  /\ conn.stage = "on" /\ conn.pc[c] = "sent" /\ conn.wire = "rsp"
  /\ conn' = [conn EXCEPT !.pc[c] = "done", !.wire = "idle",
                 !.inflight = @ - 1,
                 !.cliNonce = IF conn.rsp.ok THEN conn.rsp.nonce ELSE @,
                 !.res[c] = IF conn.rsp.ok THEN "OK" ELSE "WrongSecret"]
  /\ UNCHANGED <<slots, ownerAuth, sess, last, codec, link, store, reuse, nv>>

\* Caller c releases the mutex after its Execute has returned.
Unlock(c) ==
  /\ conn.stage = "on" /\ conn.pc[c] = "done"
  /\ conn' = [conn EXCEPT !.pc[c] = "idle",
                 !.lock = IF @ = c THEN 0 ELSE @]
  /\ UNCHANGED <<slots, ownerAuth, sess, last, codec, link, store, reuse, nv>>

\* The transport fails under the Execute of caller c: the write failed and
\* the device has not seen the command (lost = "command"), or the device
\* has answered and the read failed (lost = "response").  Execute returns
\* the transport's error as it is.
IOFailure(c, lost) ==
  /\ conn.stage = "on" /\ conn.pc[c] = "sent"
  /\ conn.wire = (IF lost = "command" THEN "cmd" ELSE "rsp")
  /\ conn' = [conn EXCEPT !.pc[c] = "done", !.wire = "idle",
                 !.inflight = @ - 1, !.failed = TRUE,
                 !.res[c] = "TransportError"]
  /\ UNCHANGED <<slots, ownerAuth, sess, last, codec, link, store, reuse, nv>>

ConnNext ==
  \/ \E c \in Callers : Lock(c)
  \/ \E c \in Callers : Send(c)
  \/ ConnDeviceAnswers
  \/ \E c \in Callers : Receive(c)
  \/ \E c \in Callers : Unlock(c)
  \/ \E c \in Callers, lost \in {"command", "response"} : IOFailure(c, lost)

ConnSpec == ConnInit /\ [][ConnNext]_vars

\* The callers' own steps are taken when they can be; whether the device
\* or the peer of the connection answers, and whether the transport
\* fails, is not in the program's hands.
ConnFairSpec ==
  /\ ConnSpec
  /\ \A c \in Callers :
       WF_vars(Lock(c)) /\ WF_vars(Send(c)) /\ WF_vars(Receive(c)) /\ WF_vars(Unlock(c))

\* ------------------------------------------------------- NV helpers

\* NV indices a run uses: i stands for 0x01000000 + i - 1.
NVIndices == {1, 2}

\* Sizes asked of GenerateRandomData.
DataSizes == {0, 1, 32}

\* The nil *NVIndexInfo, and the nil data.
NoInfo == [Handle |-> 0, Name |-> 0]

NoData == 0 - 1

\* The name the device computes for a defined index (never empty).
NVName(index) == 100 + index

NVInit ==
  /\ slots = [h \in Handles |-> 0]
  /\ ownerAuth = EmptyAuth
  /\ sess = [i \in SessionIds |-> Unstarted]
  /\ last = NoCall
  /\ codec = NoCodec
  /\ link = NoLink
  /\ store = NoStore
  /\ reuse = NoReuse
  /\ conn = NoConn
  /\ nv = [stage |-> "on", defined |-> {}, op |-> "none", index |-> 0,
           res |-> "OK", info |-> NoInfo, data |-> NoData, failed |-> "none"]

\* A device that takes any password for the owner hierarchy.
OwnerAuthorizedAlways(auth) == TRUE

\* The device checks the password given for TPMRHOwner.
OwnerAuthorized(auth) == auth = ownerAuth

\* TPM2_NV_DefineSpace under the owner hierarchy.
NVDefineSpace(defined, index, auth) ==
  IF ~OwnerAuthorized(auth) THEN [res |-> "WrongSecret", defined |-> defined]
  ELSE IF index \in defined THEN [res |-> "NVDefined", defined |-> defined]
  ELSE [res |-> "OK", defined |-> defined \cup {index}]

\* TPM2_NV_ReadPublic: no authorization.
NVReadPublic(defined, index) ==
  IF index \in defined THEN [res |-> "OK", name |-> NVName(index)]
  ELSE [res |-> "HandleError", name |-> 0]

\* An NV_UndefineSpace that answers without removing the index.
NVUndefineSpaceKeepsIndex(defined, index, auth) ==
  IF index \notin defined THEN [res |-> "HandleError", defined |-> defined]
  ELSE IF ~OwnerAuthorized(auth) THEN [res |-> "WrongSecret", defined |-> defined]
  ELSE [res |-> "OK", defined |-> defined]

\* TPM2_NV_UndefineSpace under the owner hierarchy: the device resolves the
\* handles of the command before it checks the authorization.
NVUndefineSpace(defined, index, auth) ==
  IF index \notin defined THEN [res |-> "HandleError", defined |-> defined]
  ELSE IF ~OwnerAuthorized(auth) THEN [res |-> "WrongSecret", defined |-> defined]
  ELSE [res |-> "OK", defined |-> defined \ {index}]

\* A helper that drops the error of a step.
ErrorSwallowed(res) == "OK"

\* "if err != nil { return ..., fmt.Errorf("...: %w", err) }": the error of
\* the step is the error of the helper.
ErrorWrapped(res) == res

\* GenerateRandomData(size); fail: rand.Read returns an error.
GenerateRandomData(size, fail) ==
  /\ nv.stage = "on"
  /\ LET res == ErrorWrapped(IF fail THEN "RandomSourceError" ELSE "OK")
     IN nv' = [nv EXCEPT !.op = "random", !.index = 0, !.res = res,
                 !.info = NoInfo,
                 !.data = IF res = "OK" THEN size ELSE NoData,
                 !.failed = IF fail THEN "rand" ELSE "none"]
  /\ UNCHANGED <<slots, ownerAuth, sess, last, codec, link, store, reuse, conn>>

\* CreateNVIndex(tpm, index, size, password): NV_DefineSpace under
\* PasswordAuth(""), then NV_ReadPublic for the name.  fail: the step at
\* which the transport fails ("none", "define": before the device has the
\* command, "read").
CreateNVIndex(index, fail) ==
  /\ nv.stage = "on"
  /\ LET d == IF fail = "define"
              THEN [res |-> "TransportError", defined |-> nv.defined]
              ELSE NVDefineSpace(nv.defined, index, EmptyAuth)
         r == IF fail = "read"
              THEN [res |-> "TransportError", name |-> 0]
              ELSE NVReadPublic(d.defined, index)
     IN IF ErrorWrapped(d.res) # "OK"
        THEN nv' = [nv EXCEPT !.op = "create", !.index = index,
                      !.res = ErrorWrapped(d.res), !.info = NoInfo,
                      !.data = NoData, !.failed = "define"]
        ELSE IF ErrorWrapped(r.res) # "OK"
        THEN nv' = [nv EXCEPT !.op = "create", !.index = index,
                      !.defined = d.defined,
                      !.res = ErrorWrapped(r.res), !.info = NoInfo,
                      !.data = NoData,
                      !.failed = IF d.res # "OK" THEN "define" ELSE "read"]
        ELSE nv' = [nv EXCEPT !.op = "create", !.index = index,
                      !.defined = d.defined, !.res = "OK",
                      !.info = [Handle |-> index, Name |-> r.name],
                      !.data = NoData,
                      !.failed = IF d.res # "OK" THEN "define"
                                 ELSE IF r.res # "OK" THEN "read" ELSE "none"]
  /\ UNCHANGED <<slots, ownerAuth, sess, last, codec, link, store, reuse, conn>>

\* DeleteNVIndex(tpm, nvInfo): NV_UndefineSpace under PasswordAuth("").
\* fail: the transport fails before the device has the command.
DeleteNVIndex(info, fail) ==
  /\ nv.stage = "on"
  /\ LET d == IF fail
              THEN [res |-> "TransportError", defined |-> nv.defined]
              ELSE NVUndefineSpace(nv.defined, info.Handle, EmptyAuth)
     IN nv' = [nv EXCEPT !.op = "delete", !.index = info.Handle,
                 !.defined = d.defined,
                 !.res = ErrorWrapped(d.res), !.info = NoInfo, !.data = NoData,
                 !.failed = IF d.res # "OK" THEN "undefine" ELSE "none"]
  /\ UNCHANGED <<slots, ownerAuth, sess, last, codec, link, store, reuse, conn>>

\* The owner auth is changed by a caller that knows the current one.
NVHierarchyChangeAuth(newAuth) ==
  /\ nv.stage = "on"
  /\ newAuth # ownerAuth
  /\ ownerAuth' = newAuth
  /\ nv' = [nv EXCEPT !.op = "hca", !.index = 0, !.res = "OK",
              !.info = NoInfo, !.data = NoData, !.failed = "none"]
  /\ UNCHANGED <<slots, sess, last, codec, link, store, reuse, conn>>

NVNext ==
  \/ \E n \in DataSizes, fail \in BOOLEAN : GenerateRandomData(n, fail)
  \/ \E i \in NVIndices, fail \in {"none", "define", "read"} : CreateNVIndex(i, fail)
  \/ \E i \in NVIndices, fail \in BOOLEAN :
       DeleteNVIndex([Handle |-> i, Name |-> NVName(i)], fail)
  \/ \E n \in NewOwnerAuths \cup {EmptyAuth} : NVHierarchyChangeAuth(n)

NVSpec == NVInit /\ [][NVNext]_vars

\* ------------------------------------------------------------ lifecycle

\* Lifecycle of a persistent session object as its caller knows it: not yet
\* returned by its constructor, returned and not released, released by a
\* call of its own closer that returned nil.
State(i) ==
  IF ~sess[i].made THEN "Unstarted"
  ELSE IF sess[i].closed THEN "Released"
  ELSE "Active"

Active == {i \in SessionIds : State(i) = "Active"}

\* The device holds session i under the handle i was started with.
Owns(i) == sess[i].made /\ slots[sess[i].handle] = i

\* What a command on the owner hierarchy returns when an inline session
\* built with the auth value authorizes it, on a device whose slots are s.
InlineOutcome(s, authValue) ==
  LET r == StartAuthSession(s, InlineOwner)
  IN IF ~r.ok THEN "SlotExhausted"
     ELSE DeviceVerdict(r.slots, <<InlineSession>>, <<r.handle>>, authValue, "owner")

\* The kinds of authorization carried by an inline (ephemeral) session.
InlineKinds == {"unbound", "bound", "hmacauth"}

\* ---------------------------------------------------------------- claims

\* C1: in every reachable state at most PoolSize persistent sessions are
\* Active, and every Active persistent session owns one slot of the device
\* (the one of its handle) that no other Active session has.
C1_ActiveSessionsOwnTheirSlot ==
  /\ Cardinality(Active) <= PoolSize
  /\ \A i \in Active :
       /\ Owns(i)
       /\ \A j \in Active \ {i} : sess[j].handle # sess[i].handle

\* C2: counted in calls, a start fails with SlotExhausted exactly when
\* PoolSize sessions have been started and not released: the first PoolSize
\* starts succeed, the next one fails, one release permits one more start.
C2_StartFailsExactlyWhenPoolHeld ==
  last.op = "start" =>
    /\ last.res \in {"OK", "SlotExhausted"}
    /\ last.res = "OK" => Cardinality(Active) <= PoolSize
    /\ last.res = "SlotExhausted" => Cardinality(Active) = PoolSize

\* C3: a persistent session moves only Unstarted -> Active -> Released.  It
\* becomes Active, and the device comes to hold it, only in the step of its
\* own successful start; it becomes Released only in a step of its closer
\* that returns nil, taken while it is Active; once Released it never
\* changes state and the device never holds it again.
C3_LifecycleOnlyForward ==
  [][\A i \in SessionIds :
       /\ State(i)' # State(i) =>
            \/ /\ State(i) = "Unstarted" /\ State(i)' = "Active"
               /\ last'.op = "start" /\ last'.res = "OK" /\ last'.sid = i
            \/ /\ State(i) = "Active" /\ State(i)' = "Released"
               /\ last'.op = "close" /\ last'.res = "OK" /\ last'.sid = i
       /\ (Owns(i)' /\ ~Owns(i)) =>
            (last'.op = "start" /\ last'.res = "OK" /\ last'.sid = i)
       /\ State(i) = "Released" => ~Owns(i)']_vars

\* C3 happens: a session is Released and the handle it had now belongs to a
\* session started after it.
C3_ReleasedHandleReused ==
  \E i, j \in SessionIds :
    /\ State(i) = "Released" /\ State(j) = "Active"
    /\ sess[j].handle = sess[i].handle /\ Owns(j)

\* C4: a call of a session's closer made while the session is Active returns
\* nil and frees its slot; a call made after that returns an error and
\* leaves the slots as they were.
C4_LaterReleaseFailsAndKeepsSlots ==
  [][\A i \in SessionIds :
       (last'.op = "close" /\ last'.sid = i) =>
          IF State(i) = "Active"
          THEN last'.res = "OK" /\ slots' = [slots EXCEPT ![sess[i].handle] = 0]
          ELSE last'.res # "OK" /\ slots' = slots]_vars

\* C6: whatever sessions a command carries, it succeeds when the secret it
\* is authorized with is the owner hierarchy's auth value, and otherwise it
\* fails with WrongSecret and changes no session object and no slot.
C6_CorrectSecretSucceedsWrongSecretFails ==
  [][last'.op = "exec" =>
       /\ last'.secret = ownerAuth => last'.res = "OK"
       /\ last'.secret # ownerAuth =>
            (last'.res = "WrongSecret" /\ sess' = sess /\ slots' = slots)]_vars

\* C7: a command authorized by password alone succeeds exactly when the
\* password is the owner hierarchy's current auth value, the one the last
\* successful HierarchyChangeAuth installed, and fails with WrongSecret for
\* every other password.
C7_PasswordCheckedAgainstCurrentAuth ==
  /\ (last.op = "hca" /\ last.res = "OK") => ownerAuth = last.secret
  /\ (last.op = "exec" /\ last.kind = "password" /\ last.extra = "none") =>
       /\ last.secret = ownerAuth => last.res = "OK"
       /\ last.secret # ownerAuth => last.res = "WrongSecret"

\* C7 happens: the owner auth has been changed and the previous (empty)
\* password is refused.
C7_PreviousPasswordRefused ==
  /\ ownerAuth = "mysecret"
  /\ last.op = "exec" /\ last.kind = "password" /\ last.extra = "none"
  /\ last.secret = EmptyAuth /\ last.res = "WrongSecret"

\* C8: when every slot is held by an Active persistent session, a command
\* authorized by an inline session with the correct secret succeeds.
C8_EphemeralNeverLacksSlot ==
  ( /\ last.op = "exec" /\ last.kind \in InlineKinds /\ last.extra = "none"
    /\ last.secret = ownerAuth
    /\ \A h \in Handles : slots[h] \in Active ) => last.res = "OK"

\* C9: an exchange that carries an inline session leaves the set of occupied
\* slots as it was, whether it succeeds or fails.
C9_EphemeralExchangeKeepsSlots ==
  [][(last'.op = "exec" /\ (last'.kind \in InlineKinds \/ last'.extra = "salted")) =>
       Occupied(slots') = Occupied(slots)]_vars

\* C10: an Active persistent session that the device holds stays Active and
\* held under the same handle in every step but a call of its own closer.
C10_OnlyOwnCloserFreesSlot ==
  [][\A i \in SessionIds :
       (State(i) = "Active" /\ Owns(i)) =>
          \/ (State(i)' = "Active" /\ Owns(i)' /\ sess'[i].handle = sess[i].handle)
          \/ (last'.op = "close" /\ last'.sid = i)]_vars

\* C11: an exchange whose response does not verify fails with NonceMismatch,
\* and after it no exchange on that session succeeds.
C11_SessionDeadAfterNonceMismatch ==
  link.stage = "on" =>
    /\ link.op = "corrupted" => link.res = "NonceMismatch"
    /\ (link.broken /\ link.op = "exchange") => link.res # "OK"

\* C12: as long as the responses arrive as the device sent them, the
\* nonceTPM the caller will authorize the next command with is the one the
\* device returned last, and a recorded command sent again is rejected.
C12_NonceTrackedAndReplayRejected ==
  link.stage = "on" =>
    /\ ~link.broken => link.cliNonce = link.devNonce
    /\ link.op = "replay" => link.res = "WrongSecret"

\* C12 happens: a recorded command is replayed after two more exchanges.
C12_ReplayAfterLaterExchanges ==
  /\ link.stage = "on" /\ link.op = "replay" /\ link.res = "WrongSecret"
  /\ link.devNonce >= link.rec + 2

\* C13: what the device decrypts is the parameter the caller encrypted, and
\* what the caller decrypts is the parameter the device encrypted:
\* DecryptParameter(k, EncryptParameter(k, P)) = P for every key and every
\* parameter up to the longest one.
C13_EncryptDecryptRoundTrip ==
  codec.stage # "off" =>
    /\ \A k \in Keys : DecryptParameter(k, EncryptParameter(k, codec.cmd[1])) = codec.cmd[1]
    /\ codec.stage = "answered" => codec.dev = codec.cmd
    /\ (codec.stage = "done" /\ codec.res = "OK") =>
         (codec.dev = codec.cmd /\ codec.got = codec.rsp)

\* C13 happens: a parameter of the greatest length went out encrypted and
\* came back.
C13_LongParameterWentThrough ==
  /\ codec.stage = "done" /\ codec.res = "OK"
  /\ DecryptSessions(codec.ss) # {} /\ EncryptSessions(codec.ss) # {}
  /\ Len(codec.cmd[1]) = MaxLen
  /\ codec.wire[1] # codec.cmd[1]
  /\ codec.got = codec.cmd

\* C17: with HMACAuth and Salted on one command the device checks the auth
\* value of the HMACAuth session and the first parameter travels under the
\* Salted session's key; HMACAuth alone authorizes and leaves the parameters
\* in clear; Salted beside a password encrypts and the password authorizes.
C17_AuthorizationAndEncryptionIndependent ==
  codec.stage # "off" =>
    LET names == [j \in 1..Len(codec.ss) |-> codec.ss[j].name]
        sent  == codec.wire # <<>>
        done  == codec.stage = "done"
    IN /\ (~codec.pw /\ names = <<"hmacauth", "salted">>) =>
            /\ done => (codec.res = "OK" <=> codec.ss[1].auth = codec.tauth)
            /\ sent => codec.wire =
                 <<EncryptParameter(ParameterKey(codec.key, 2, 0), codec.cmd[1]), codec.cmd[2]>>
       /\ (~codec.pw /\ names = <<"hmacauth">>) =>
            /\ done => (codec.res = "OK" <=> codec.ss[1].auth = codec.tauth)
            /\ sent => codec.wire = codec.cmd
       /\ (codec.pw /\ names = <<"salted">>) =>
            /\ done => (codec.res = "OK" <=> codec.secret = codec.tauth)
            /\ sent => codec.wire =
                 <<EncryptParameter(ParameterKey(codec.key, 1, 0), codec.cmd[1]), codec.cmd[2]>>

\* C17 happens: a command with HMACAuth and Salted on a target with a
\* password succeeded and its first parameter was not sent in clear.
C17_TwoSessionsOnOneCommand ==
  /\ codec.stage = "done" /\ codec.res = "OK" /\ ~codec.pw
  /\ Len(codec.ss) = 2 /\ codec.ss[1].name = "hmacauth" /\ codec.ss[2].name = "salted"
  /\ codec.tauth = "mysecret"
  /\ codec.wire[1] # codec.cmd[1]

\* C20: a session declared In (or InOut) has the first parameter of the
\* command encrypted on the wire, one declared Out (or InOut) the first
\* parameter of the response; everything else is on the wire as it is.
C20_DirectionSelectsWhatIsEncrypted ==
  (codec.stage # "off" /\ Cardinality(DecryptSessions(codec.ss)) <= 1) =>
    LET ins  == {j \in 1..Len(codec.ss) : codec.ss[j].enc \in {"In", "InOut"}}
        outs == {j \in 1..Len(codec.ss) : codec.ss[j].enc \in {"Out", "InOut"}}
    IN /\ codec.wire # <<>> =>
            /\ codec.wire[2] = codec.cmd[2]
            /\ ins = {} => codec.wire[1] = codec.cmd[1]
            /\ \A j \in ins :
                 codec.wire[1] = EncryptParameter(ParameterKey(codec.key, j, 0), codec.cmd[1])
       /\ codec.wireRsp # <<>> =>
            /\ codec.wireRsp[2] = codec.rsp[2]
            /\ outs = {} => codec.wireRsp[1] = codec.rsp[1]
            /\ \A j \in outs :
                 codec.wireRsp[1] = EncryptParameter(ParameterKey(codec.key, j, 1), codec.rsp[1])

\* C20 happens: a session declared In encrypted the command's parameter and
\* left the response's in clear.
C20_InEncryptsCommandOnly ==
  /\ codec.stage = "done" /\ codec.res = "OK"
  /\ Len(codec.ss) = 1 /\ codec.ss[1].enc = "In"
  /\ codec.wire[1] # codec.cmd[1]
  /\ codec.wireRsp = codec.rsp /\ Len(codec.rsp[1]) = MaxLen

\* C16: a command authorized by HMACAuth with the inline Salted session
\* attached succeeds exactly when the HMACAuth session is keyed to the auth
\* value of the command's own target, the owner hierarchy or key A.
C16_SharedEncryptionSessionPerTargetAuth ==
  (last.op = "exec" /\ last.kind = "hmacauth" /\ last.extra = "salted") =>
    (last.res = "OK" <=> last.secret = TargetAuth(last.target))

\* C18: a key creation authorized by Bound with the owner's auth value and
\* carrying a Salted session as well succeeds.
C18_BoundAuthorizesSaltedEncrypts ==
  (last.op = "exec" /\ last.kind = "bound" /\ last.extra = "salted"
     /\ last.secret = ownerAuth) =>
    last.res = "OK"

\* C19: a command two of whose sessions ask for its parameter to be
\* encrypted is refused with ConfigurationError, and the device is left as
\* it was before the call.
C19_SecondEncryptionRefusedLocally ==
  [][(last'.op = "exec" /\ last'.kind \in {"bound", "unbound"}
        /\ last'.extra = "salted") =>
       (last'.res = "ConfigurationError" /\ slots' = slots)]_vars

\* C14: for every name algorithm, sealing succeeds exactly for payloads of
\* at most 128 bytes; a payload of 129 bytes is refused and leaves no
\* object, and what was sealed is what Unseal returns, whole.
C14_SealLimitIs128ForEveryNameAlg ==
  store.stage = "on" =>
    /\ store.op = "create" =>
         /\ Len(store.req.data) = 128 => store.res = "OK"
         /\ Len(store.req.data) = 129 => (store.res # "OK" /\ ~store.obj.made)
         /\ store.res = "OK" => store.obj.data = store.req.data
    /\ store.obj.made => Len(store.obj.data) <= 128
    /\ (store.op = "unseal" /\ store.pw = store.obj.auth) =>
         (store.res = "OK" /\ store.out = store.obj.data)

\* C14 happens: a payload of 128 bytes sealed under a SHA512 template came
\* back from Unseal byte for byte.
C14_FullSizePayloadUnsealed ==
  /\ store.stage = "on" /\ store.op = "unseal" /\ store.res = "OK"
  /\ store.obj.alg = "SHA512"
  /\ store.out = DataOfSize(128)

\* C15: Unseal returns the sealed bytes exactly when the object's auth
\* value is presented (the empty one for an object without password), for
\* primary and child objects; any other password gives WrongSecret and no
\* data.
C15_UnsealNeedsTheObjectAuth ==
  (store.stage = "on" /\ store.op = "unseal") =>
    /\ store.pw = store.obj.auth => (store.res = "OK" /\ store.out = store.obj.data)
    /\ store.pw # store.obj.auth => (store.res = "WrongSecret" /\ store.out = <<>>)

\* C15 happens: a child object sealed with a password was asked for with a
\* wrong one.
C15_WrongPasswordOnChild ==
  /\ store.stage = "on" /\ store.op = "unseal"
  /\ store.obj.parent = "child" /\ store.obj.auth = "mypassword"
  /\ store.obj.data = DataToSeal
  /\ store.pw = "wrongpassword" /\ store.res = "WrongSecret"

C22_OnlyTheTagLeavesAnHMACSession ==
  (codec.stage # "off" /\ codec.auth # <<>>) =>
    LET first == IF codec.pw THEN 2 ELSE 1
    IN /\ \A j \in first..Len(codec.auth) :
            /\ DOMAIN codec.auth[j] = {"hmac"}
            /\ codec.auth[j].hmac \in Nat
       /\ \A j \in 1..Len(codec.rspAuth) :
            /\ DOMAIN codec.rspAuth[j] = {"hmac"}
            /\ codec.rspAuth[j].hmac \in Nat
       /\ codec.pw => codec.auth[1] = [password |-> codec.secret]
       /\ ~codec.pw => Len(codec.auth) = Len(codec.ss)

\* C22 happens: a command authorized by HMACAuth with the target's
\* password was accepted, and the response carried its HMAC.
C22_HMACAuthAccepted ==
  /\ codec.stage = "done" /\ codec.res = "OK" /\ ~codec.pw
  /\ Len(codec.ss) = 1 /\ codec.ss[1].name = "hmacauth"
  /\ codec.ss[1].auth = "mysecret" /\ codec.tauth = "mysecret"
  /\ Len(codec.auth) = 1 /\ Len(codec.rspAuth) = 1

\* C24: no session of a command has both a bind entity and a salt key:
\* Unbound, UnboundSession and HMACAuth have neither, Bound and
\* BoundSession the bind entity only, Salted and SaltedSession the salt key
\* only.
C24_NeverBindAndSaltTogether ==
  codec.stage # "off" =>
    \A j \in 1..Len(codec.ss) :
      LET s == codec.ss[j]
      IN /\ ~(s.bind /\ s.salt)
         /\ s.name \in {"unbound", "hmacauth"} => (~s.bind /\ ~s.salt)
         /\ s.name = "bound" => (s.bind /\ ~s.salt)
         /\ s.name = "salted" => (s.salt /\ ~s.bind)

\* C24 happens: a command went through under the session of BoundSession.
C24_BoundSessionUsed ==
  /\ codec.stage = "done" /\ codec.res = "OK"
  /\ Len(codec.ss) = 1 /\ codec.ss[1].name = "bound" /\ codec.ss[1].persistent
  /\ codec.ss[1].bind

\* C25: a call of an inline constructor leaves the slot pool and every
\* session object as they were.
C25_BuildingTouchesNothing ==
  [][last'.op = "build" => (slots' = slots /\ sess' = sess /\ ownerAuth' = ownerAuth)]_vars

\* C25 happens: an inline Salted value was built while a persistent session
\* was active on the device.
C25_BuiltBesideAnActiveSession ==
  /\ last.op = "build" /\ last.kind = "salted"
  /\ \E i \in SessionIds : sess[i].made /\ ~sess[i].closed /\ Owns(i)

C26_EveryExecutionItsOwnSession ==
  (reuse.stage = "on" /\ reuse.op = "exec") =>
    /\ reuse.res # "SlotExhausted" =>
         /\ ValueV \in reuse.started
         /\ reuse.useW => ValueW \in reuse.started
    /\ reuse.v = TPMRHNull /\ reuse.w = TPMRHNull

C28_NoExchangeAfterTransportError ==
  [][/\ (conn.stage = "on" /\ conn'.failed /\ ~conn.failed) =>
          \E c \in Callers : conn'.res[c] = "TransportError"
     /\ (conn.stage = "on" /\ conn.failed) => conn'.inflight <= conn.inflight]_vars

\* C29: a round trip that has been started returns, with the response or
\* with a failure.
C29_EveryRoundTripReturns ==
  \A c \in Callers : (conn.stage = "on" /\ conn.pc[c] = "sent") ~> (conn.pc[c] = "done")

\* C36: a call of the closer of a Released session A, made when A's handle
\* belongs to an Active session B started later, leaves B's slot alone: the
\* device still holds B after the call.
C36_SecondReleaseSparesLaterSession ==
  [][\A a, b \in SessionIds :
       ( /\ a # b /\ State(a) = "Released"
         /\ State(b) = "Active" /\ Owns(b) /\ sess[b].handle = sess[a].handle
         /\ last'.op = "close" /\ last'.sid = a ) =>
          (State(b)' = "Active" /\ Owns(b)')]_vars

\* C37: a command that carries a Released persistent session, as its
\* authorization or as an extra session, does not succeed, and leaves the
\* slots, the session objects and the owner auth as they were.
C37_ReleasedSessionIsRejected ==
  [][\A i \in SessionIds :
       ( /\ State(i) = "Released"
         /\ last'.op = "exec" /\ last'.sid = i ) =>
          /\ last'.res \in {"BadSession", "WrongSecret"}
          /\ slots' = slots /\ sess' = sess /\ ownerAuth' = ownerAuth]_vars

\* C37 happens: a command carried a Released session whose handle a later
\* Active session holds, with the owner's password, and was rejected.
C37_ReleasedSessionOnReusedHandle ==
  \E i, j \in SessionIds :
    /\ State(i) = "Released" /\ State(j) = "Active" /\ Owns(j)
    /\ sess[j].handle = sess[i].handle
    /\ last.op = "exec" /\ last.sid = i /\ last.secret = ownerAuth
    /\ last.res = "WrongSecret"

\* C38 as stated: a start that fails, whatever the failure, leaves the
\* number of occupied slots as it was and returns no session.
C38_FailedStartLeavesSlotsAlone ==
  [][(last'.op = "start" /\ last'.res # "OK") =>
       /\ Cardinality(Occupied(slots')) = Cardinality(Occupied(slots))
       /\ sess' = sess]_vars

\* C38 amended: a start that fails returns no session; it leaves the slots
\* as they were when the device refused it (SlotExhausted) or the command
\* did not reach the device, and when the response was lost the device
\* holds at most the one session it started for the call.
C38_FailedStartHandsNoSession ==
  [][(last'.op = "start" /\ last'.res # "OK") =>
       /\ sess' = sess /\ last'.sid = 0
       /\ last'.res \in {"SlotExhausted", "TransportError"}
       /\ (last'.res = "SlotExhausted" \/ last'.extra = "command") => slots' = slots
       /\ last'.extra = "response" =>
            /\ Occupied(slots) \subseteq Occupied(slots')
            /\ Cardinality(Occupied(slots')) <= Cardinality(Occupied(slots)) + 1
            /\ \A h \in Occupied(slots) : slots'[h] = slots[h]]_vars

\* C38 happens: a start has failed on a full pool while a session is
\* Active, and no session object was returned for it.
C38_StartRefusedOnFullPool ==
  /\ last.op = "start" /\ last.res = "SlotExhausted" /\ last.sid = 0
  /\ Occupied(slots) = Handles /\ Active # {}
  /\ Cardinality(Made) < MaxSessions

\* C39: a command authorized by an Active persistent session returns what
\* the same command returns under the inline session built from the same
\* parameters, on the same device but for the slot the persistent session
\* occupies; and neither changes the owner auth.
C39_PersistentAndInlineAgree ==
  [][\A i \in SessionIds :
       ( /\ State(i) = "Active"
         /\ last'.op = "exec" /\ last'.kind = "session" /\ last'.sid = i ) =>
          /\ last'.res = InlineOutcome([h \in Handles |-> IF slots[h] = i THEN 0 ELSE slots[h]],
                                       sess[i].auth)
          /\ ownerAuth' = ownerAuth]_vars

\* C40: the session key a persistent session has when its constructor
\* returns is the key it has after every exchange, whatever nonceTPM the
\* exchange brought.
C40_SessionKeyDerivedOnce ==
  [][link.stage = "on" => link'.sessionKey = link.sessionKey]_vars

\* C40 happens: a salted or bound session has been through three exchanges,
\* each with a new nonceTPM.
C40_KeyedSessionAfterRotations ==
  /\ link.stage = "on" /\ link.sessionKey # 0
  /\ link.op = "exchange" /\ link.res = "OK" /\ link.cliNonce >= 3

\* C32: an exchange that ends with an error, be it the local refusal, the
\* device's rejection of the authorization or a response that does not
\* verify, hands the caller no response parameter; one that succeeds hands
\* it the whole response.
C32_NoResponseOnFailure ==
  codec.stage = "done" =>
    /\ codec.res # "OK" => codec.got = <<>>
    /\ codec.res = "OK" => (Len(codec.got) = 2 /\ codec.got = codec.rsp)

\* C32 happens: a response whose first parameter was encrypted by a session
\* and altered in transit was refused by the caller.
C32_AlteredEncryptedResponseRefused ==
  /\ codec.stage = "done" /\ codec.res = "NonceMismatch"
  /\ EncryptSessions(codec.ss) # {}
  /\ Len(codec.rsp[1]) = MaxLen
  /\ codec.wireRsp # Encode(codec.key, EncryptSessions(codec.ss), 1, codec.rsp)

\* C31: GenerateRandomData, CreateNVIndex and DeleteNVIndex return a nil
\* error exactly when no step of theirs failed, and with an error they
\* return no data and no NVIndexInfo.
C31_EveryStepFailureIsReturned ==
  (nv.stage = "on" /\ nv.op \in {"random", "create", "delete"}) =>
    /\ nv.res = "OK" <=> nv.failed = "none"
    /\ nv.res # "OK" => (nv.info = NoInfo /\ nv.data = NoData)
    /\ (nv.op = "create" /\ nv.res = "OK") => nv.info # NoInfo
    /\ (nv.op = "random" /\ nv.res = "OK") => nv.data \in DataSizes

\* C31 happens: CreateNVIndex has returned the error of its second step,
\* the read of the public area.
C31_ReadPublicErrorReturned ==
  /\ nv.stage = "on" /\ nv.op = "create" /\ nv.failed = "read"
  /\ nv.res = "TransportError" /\ nv.info = NoInfo

\* C33: a successful CreateNVIndex returns the index as Handle and the
\* device's name of the index, which is not empty; a DeleteNVIndex with
\* that info that follows it and reaches the device succeeds and leaves the
\* index undefined; and a CreateNVIndex of the index that follows that
\* succeeds again.
C33_CreateDeleteCreate ==
  [][nv.stage = "on" =>
       /\ (nv'.op = "create" /\ nv'.res = "OK") =>
            /\ nv'.info = [Handle |-> nv'.index, Name |-> NVName(nv'.index)]
            /\ nv'.info.Name # 0
            /\ nv'.index \in nv'.defined
       /\ ( /\ nv.op = "create" /\ nv.res = "OK"
            /\ nv'.op = "delete" /\ nv'.index = nv.info.Handle
            /\ nv'.res # "TransportError" ) =>
            (nv'.res = "OK" /\ nv'.index \notin nv'.defined)
       /\ ( /\ nv.op = "delete" /\ nv.res = "OK"
            /\ nv'.op = "create" /\ nv'.index = nv.index
            /\ nv'.res # "TransportError" ) =>
            (nv'.res = "OK" /\ nv'.index \in nv'.defined)]_vars

\* C33 happens: an index has been deleted while another one stays defined.
C33_DeletedBesideAnotherIndex ==
  /\ nv.stage = "on" /\ nv.op = "delete" /\ nv.res = "OK"
  /\ nv.index \notin nv.defined /\ nv.defined # {}

\* C34: a CreateNVIndex or DeleteNVIndex that reaches the device while the
\* owner auth is empty is not refused for its authorization: the creation
\* of an undefined index and the deletion of a defined one succeed.  While
\* the owner auth is not empty, no call of either changes the set of
\* indices, and those two are refused with an authorization error.
C34_HelpersUseTheEmptyOwnerPassword ==
  [][(nv.stage = "on" /\ nv'.op \in {"create", "delete"}
        /\ nv'.res # "TransportError") =>
       LET normal == IF nv'.op = "create" THEN nv'.index \notin nv.defined
                     ELSE nv'.index \in nv.defined
       IN /\ ownerAuth = EmptyAuth =>
               (nv'.res # "WrongSecret" /\ (normal => nv'.res = "OK"))
          /\ ownerAuth # EmptyAuth =>
               /\ nv'.defined = nv.defined
               /\ nv'.res # "OK"
               /\ normal => nv'.res = "WrongSecret"]_vars

\* C34 happens: with the owner auth changed, the deletion of a defined
\* index was refused and the index is still defined.
C34_DeleteRefusedAfterAuthChange ==
  /\ nv.stage = "on" /\ ownerAuth = "mysecret"
  /\ nv.op = "delete" /\ nv.res = "WrongSecret" /\ nv.index \in nv.defined

\* C35: a CreateNVIndex that returns an error leaves the set of defined NV
\* indices as it was.
C35_FailedCreateDefinesNothing ==
  [][(nv.stage = "on" /\ nv'.op = "create" /\ nv'.res # "OK") =>
       nv'.defined = nv.defined]_vars

====
